---- MODULE Spec2Model ----
(***************************************************************************)
(* Enterprise Monitoring Platform: metric ingestion, threshold evaluation, *)
(* health scoring, the alert lifecycle, the maintenance sweep and the      *)
(* websocket and email notifications, modelled from backend/app.           *)
(*                                                                         *)
(* Time is counted in whole days.  The database is the committed rows of   *)
(* the assets, alerts and metrics tables; every SQLAlchemy session is a    *)
(* worker-local snapshot (loaded asset, pending objects) that reaches the  *)
(* tables only at commit.  Numeric values are integers: the code only      *)
(* compares them against integer thresholds.                               *)
(***************************************************************************)
EXTENDS Integers, Sequences, FiniteSets, TLC

\* ------------------------------------------------------------------ bounds
NumWorkers == 2      \* background-task threads that may run concurrently
MaxMetrics == 2      \* metric rows ingested in one behaviour
MaxAlerts  == 2      \* alert rows created through the alert endpoint
MaxClones  == 5      \* identical extra alerts in the drawn health tables
MaxTime    == 9      \* last day the clock reaches
MaxValue   == 241    \* largest sample value drawn for the evaluator
MaxConns      == 3   \* websocket connections
MaxBroadcasts == 2   \* broadcast coroutines run in one behaviour
MaxSweepAlerts == 2  \* alert rows there may be when a sweep pass starts
MaxAssets     == 3   \* rows of the assets table

\* ------------------------------------------------------- program constants
Week            == 7     \* timedelta(days=7)
PenaltyCritical == 20
PenaltyHigh     == 10
PenaltyMedium   == 5
PenaltyLow      == 2
OverduePenalty  == 30
FullScore       == 100
FailedBelow     == 30
MaintBelow      == 70

\* Python's None / SQL NULL in a numeric or id column: an integer outside
\* every value domain; NoneStr is None in a string column
None    == 0 - 2
NoneStr == "None"

AssetIds == {1, 2}
UserIds  == {1, 2}

\* models.py enums
AssetType     == {"financial", "manufacturing"}
AssetStatus   == {"active", "inactive", "maintenance", "failed"}
AlertSeverity == {"low", "medium", "high", "critical"}
MetricType    == {"temperature", "vibration", "pressure", "voltage", "current",
                  "stock_price", "portfolio_value", "risk_score"}
\* Alert.status is a free string column; these are the documented values
AlertStatuses == {"open", "acknowledged", "resolved", "closed"}

NumericKinds == {"temperature", "vibration", "pressure", "voltage", "current"}

\* AssetMonitor.THRESHOLDS
THRESHOLDS ==
  [ temperature |-> [min |-> 20,  max |-> 80,  critical |-> 90],
    vibration   |-> [min |-> 0,   max |-> 5,   critical |-> 8],
    pressure    |-> [min |-> 0,   max |-> 80,  critical |-> 95],
    voltage     |-> [min |-> 210, max |-> 230, critical |-> 240],
    current     |-> [min |-> 0,   max |-> 10,  critical |-> 15],
    stock_price |-> [change_percent |-> 5, critical_change |-> 10] ]

\* sessionmaker(autocommit=False, autoflush=False, ...)
AUTOFLUSH == FALSE

VARIABLES
  now,          \* the clock (datetime.utcnow / server now), in days
  assets,       \* assets table: id -> row
  alerts,       \* alerts table: id -> row
  nextAlertId,  \* the alerts id sequence
  metrics,      \* metrics table, in insertion order
  pc,           \* per worker: where its check_thresholds call stands
  task,         \* per worker: the arguments of its check_thresholds call
  sess,         \* per worker: its session (loaded asset, pending alerts, ...)
  active_connections,  \* websocket_manager.active_connections, a list
  closed,       \* the connections whose send_text raises
  received,     \* per connection: the events sent to it, in order
  bc,           \* the frame of the running broadcast coroutine
  hung,         \* the connections whose send_text never completes
  tz_aware,     \* whether the driver loads DateTime(timezone=True) as aware
  published,    \* the events whose broadcast coroutine was run
  emails,       \* the calls of send_email_notification and their outcome
  sweep         \* the frame of the running check_scheduled_maintenance

dbVars     == <<assets, alerts, nextAlertId, metrics>>
workerVars == <<pc, task, sess>>
wsVars     == <<active_connections, closed, received, bc, hung>>
notifyVars == <<published, emails>>
vars       == <<now, assets, alerts, nextAlertId, metrics, pc, task, sess,
                active_connections, closed, received, bc, published, emails,
                sweep, hung, tz_aware>>

Workers == 1..NumWorkers

\* ----------------------------------------------------------------- helpers
Max(a, b) == IF a >= b THEN a ELSE b
Min(a, b) == IF a <= b THEN a ELSE b
Abs(a)    == IF a < 0 THEN -a ELSE a

\* Python's "a or b" on Optional numbers: a unless it is None or 0
PyOr(a, b) == IF a # None /\ a # 0 THEN a ELSE b

\* dict.get(key) on a threshold entry
Get(d, k) == IF k \in DOMAIN d THEN d[k] ELSE None

\* the rows of a result set, in id order
RECURSIVE SetToSeq(_)
SetToSeq(S) == IF S = {} THEN <<>>
               ELSE LET x == CHOOSE y \in S : \A z \in S : y <= z
                    IN  <<x>> \o SetToSeq(S \ {x})

\* an Asset row as Asset(**AssetCreate) leaves it
NewAsset(type) ==
  [asset_type |-> type, status |-> "active", health_score |-> FullScore,
   next_maintenance_date |-> None, current_price |-> 0]

\* an Alert object as its constructor leaves it before any flush: id and
\* created_at (server_default) are still None
NewAlert(asset_id, user_id, severity, status, description, metric_type, threshold, actual) ==
  [asset_id |-> asset_id, user_id |-> user_id, severity |-> severity,
   status |-> status, description |-> description,
   metric_type |-> metric_type,
   threshold_value |-> threshold, actual_value |-> actual,
   created_at |-> None, resolved_at |-> None, resolved_by |-> None]

\* a closed session and an idle worker
NoAsset   == [asset_type |-> NoneStr, status |-> NoneStr, health_score |-> None,
              next_maintenance_date |-> None, current_price |-> None]
NoSession == [asset |-> NoAsset, loaded |-> NoAsset, new |-> <<>>]
NoTask    == [asset_id |-> None, metric_type |-> NoneStr, value |-> None]

\* ------------------------------------------------- the threshold evaluator
\* AlertService.send_alert_notifications builds the event payload from the
\* alert it is handed; alert.created_at.isoformat() raises AttributeError on
\* an alert that has not been flushed (created_at is still None).  The
\* broadcast it requests is a coroutine that is never awaited.
SendAlertNotificationsRaises(alert) == alert.created_at = None

\* the payload handed to websocket_manager.broadcast: its "type", and the id
\* and (for alert_update) the status inside its "data"
Event(type, id, status) == [type |-> type, id |-> id, status |-> status]

\* websocket_manager.broadcast(event) as every caller writes it: a plain
\* call, without await, of an async def.  It returns a coroutine object
\* that nothing schedules, so its body never runs: the events whose
\* broadcast runs because of the call
Broadcast(event) == << >>

\* send_alert_notifications with the broadcast carried out before the
\* payload's timestamp is read
SendAlertNotifications_BroadcastFirst(alert, id) ==
  [raised |-> SendAlertNotificationsRaises(alert),
   published |-> << Event("alert", id, NoneStr) >>]

\* AlertService.send_alert_notifications: the payload is built first (and
\* may raise), then broadcast is called; nothing is sent to the email
\* notifier
SendAlertNotifications(alert, id) ==
  IF SendAlertNotificationsRaises(alert)
    THEN [raised |-> TRUE, published |-> << >>]
    ELSE [raised |-> FALSE,
          published |-> Broadcast(Event("alert", id, NoneStr))]

\* what one call of send_email_notification can come to: skipped without
\* SMTP credentials, sent, or failed with the exception caught and logged
EmailOutcomes == {"skipped", "sent", "failed"}

\* AlertService.send_email_notification: the entry the call leaves when its
\* SMTP exchange ends as outcome; it never raises
SendEmailNotification(alert_id, outcome) ==
  [alert |-> alert_id, outcome |-> outcome]

\* one broadcast call per event, in order
RECURSIVE BroadcastAll(_)
BroadcastAll(events) ==
  IF events = << >> THEN << >>
  ELSE Broadcast(Head(events)) \o BroadcastAll(Tail(events))

\* the evaluator with the max test ahead of the critical test
CheckNumericThreshold_MaxFirst(asset_id, metric_type, value, thresholds) ==
  LET verdict ==
        IF "max" \in DOMAIN thresholds /\ value > thresholds["max"]
          THEN [triggered |-> TRUE, severity |-> "high",
                description |-> "High"]
        ELSE IF "critical" \in DOMAIN thresholds
                /\ value > thresholds["critical"]
          THEN [triggered |-> TRUE, severity |-> "critical",
                description |-> "Critical"]
        ELSE IF "min" \in DOMAIN thresholds /\ value < thresholds["min"]
          THEN [triggered |-> TRUE, severity |-> "medium",
                description |-> "Medium"]
        ELSE [triggered |-> FALSE, severity |-> "medium", description |-> ""]
  IN  IF verdict.triggered
        THEN << NewAlert(asset_id, None, verdict.severity, "open",
                         verdict.description, metric_type,
                         PyOr(Get(thresholds, "max"),
                              PyOr(Get(thresholds, "min"),
                                   Get(thresholds, "critical"))),
                         value) >>
        ELSE <<>>

\* AssetMonitor._check_numeric_threshold: the alerts it adds to the session
CheckNumericThreshold(asset_id, metric_type, value, thresholds) ==
  LET verdict ==
        IF "critical" \in DOMAIN thresholds /\ value > thresholds["critical"]
          THEN [triggered |-> TRUE, severity |-> "critical",
                description |-> "Critical"]
        ELSE IF "max" \in DOMAIN thresholds /\ value > thresholds["max"]
          THEN [triggered |-> TRUE, severity |-> "high",
                description |-> "High"]
        ELSE IF "min" \in DOMAIN thresholds /\ value < thresholds["min"]
          THEN [triggered |-> TRUE, severity |-> "medium",
                description |-> "Medium"]
        ELSE [triggered |-> FALSE, severity |-> "medium", description |-> ""]
  IN  IF verdict.triggered
        THEN << NewAlert(asset_id, None, verdict.severity, "open",
                         verdict.description, metric_type,
                         PyOr(Get(thresholds, "max"),
                              PyOr(Get(thresholds, "min"),
                                   Get(thresholds, "critical"))),
                         value) >>
        ELSE <<>>

\* the rows "filter(asset_id, metric_type).order_by(timestamp.desc())" yields
MetricsOf(rows, asset_id, metric_type) ==
  LET idx == {i \in 1..Len(rows) : rows[i].asset_id = asset_id
                                   /\ rows[i].metric_type = metric_type}
      asc == SetToSeq(idx)
  IN  [k \in 1..Len(asc) |-> rows[asc[Len(asc) + 1 - k]]]

\* f"{x:.2f}" of the fraction num / den >= 0: rounded to hundredths, two
\* digits after the point
Format2f(num, den) ==
  LET hundredths == (2 * 100 * num + den) \div (2 * den)
  IN  ToString(hundredths \div 100) \o "."
        \o ToString((hundredths % 100) \div 10) \o ToString(hundredths % 10)

\* the evaluator with "at least" in place of "more than"
CheckStockThreshold_AtLeast(rows, asset_id, asset, metric_type, value, thresholds) ==
  LET found == MetricsOf(rows, asset_id, metric_type)
      \* .offset(1).first()
      has_prev == Len(found) >= 2
  IN
  IF ~has_prev \/ asset.current_price = None
    THEN [raised |-> FALSE, new |-> <<>>]
  ELSE IF found[2].value = 0
    THEN [raised |-> TRUE, new |-> <<>>]
  ELSE
    LET prev_value == found[2].value
        \* change_percent = abs((value - prev_value) / prev_value * 100),
        \* kept as the fraction num / den
        num == Abs(value - prev_value) * 100
        den == Abs(prev_value)
        critical_change == PyOr(Get(thresholds, "critical_change"), 10)
        change_bound == PyOr(Get(thresholds, "change_percent"), 5)
        direction == IF value > prev_value THEN "increased" ELSE "decreased"
        severity == IF num >= critical_change * den THEN "critical"
                    ELSE IF num >= change_bound * den THEN "high"
                    ELSE NoneStr
    IN  IF severity = NoneStr THEN [raised |-> FALSE, new |-> <<>>]
        ELSE [raised |-> FALSE,
              new |-> << NewAlert(asset_id, None, severity, "open",
                                  direction \o " by " \o Format2f(num, den)
                                            \o "%",
                                  metric_type,
                                  Get(thresholds, "change_percent"),
                                  (num * 100) \div den) >>]

\* AssetMonitor._check_stock_threshold: [raised, new]; the division raises
\* ZeroDivisionError when the previous value is 0.  The description keeps
\* the movement ("decreased by 10.00%") without the symbol before it
CheckStockThreshold(rows, asset_id, asset, metric_type, value, thresholds) ==
  LET found == MetricsOf(rows, asset_id, metric_type)
      \* .offset(1).first()
      has_prev == Len(found) >= 2
  IN
  IF ~has_prev \/ asset.current_price = None
    THEN [raised |-> FALSE, new |-> <<>>]
  ELSE IF found[2].value = 0
    THEN [raised |-> TRUE, new |-> <<>>]
  ELSE
    LET prev_value == found[2].value
        \* change_percent = abs((value - prev_value) / prev_value * 100),
        \* kept as the fraction num / den
        num == Abs(value - prev_value) * 100
        den == Abs(prev_value)
        critical_change == PyOr(Get(thresholds, "critical_change"), 10)
        change_bound == PyOr(Get(thresholds, "change_percent"), 5)
        direction == IF value > prev_value THEN "increased" ELSE "decreased"
        severity == IF num > critical_change * den THEN "critical"
                    ELSE IF num > change_bound * den THEN "high"
                    ELSE NoneStr
    IN  IF severity = NoneStr THEN [raised |-> FALSE, new |-> <<>>]
        ELSE [raised |-> FALSE,
              new |-> << NewAlert(asset_id, None, severity, "open",
                                  direction \o " by " \o Format2f(num, den)
                                            \o "%",
                                  metric_type,
                                  Get(thresholds, "change_percent"),
                                  (num * 100) \div den) >>]

\* ------------------------------------------------------ the health scorer
\* the query without its status filter
RecentAlerts_AnyStatus(table, asset_id, week_ago) ==
  {i \in DOMAIN table : /\ table[i].asset_id = asset_id
                        /\ table[i].created_at >= week_ago}

\* the rows of _update_health_score's recent_alerts query
RecentAlerts(table, asset_id, week_ago) ==
  {i \in DOMAIN table : /\ table[i].asset_id = asset_id
                        /\ table[i].created_at >= week_ago
                        /\ table[i].status \in {"open", "acknowledged"}}

\* one pass of the penalty loop
AlertPenalty(alert) ==
  IF alert.severity = "critical" THEN PenaltyCritical
  ELSE IF alert.severity = "high" THEN PenaltyHigh
  ELSE IF alert.severity = "medium" THEN PenaltyMedium
  ELSE IF alert.severity = "low" THEN PenaltyLow
  ELSE 0

RECURSIVE PenaltyLoop(_, _)
PenaltyLoop(table, ids) ==
  IF ids = <<>> THEN 0
  ELSE AlertPenalty(table[Head(ids)]) + PenaltyLoop(table, Tail(ids))

\* the score without its floor
BaseScore_Unclamped(penalty) == FullScore - penalty

\* health_score = max(0, 100 - penalty)
BaseScore(penalty) == Max(0, FullScore - penalty)

\* the manufacturing-only overdue-maintenance adjustment
MaintenanceAdjusted(asset, health_score, t) ==
  IF asset.asset_type = "manufacturing"
     /\ asset.next_maintenance_date # None
     /\ asset.next_maintenance_date < t
    THEN Max(0, health_score - OverduePenalty)
    ELSE health_score

\* a healthy score that always restores "active"
StatusFor_HealthyIsActive(status, health_score) ==
  IF health_score < FailedBelow THEN "failed"
  ELSE IF health_score < MaintBelow THEN "maintenance"
  ELSE "active"

\* the status the score leads to
StatusFor(status, health_score) ==
  IF health_score < FailedBelow THEN "failed"
  ELSE IF health_score < MaintBelow THEN "maintenance"
  ELSE IF status = "failed" /\ health_score >= MaintBelow THEN "active"
  ELSE status

\* datetime arithmetic between a loaded DateTime(timezone=True) value and
\* datetime.utcnow(), which is naive: TypeError when the loaded value is
\* offset-aware
MixedDatetimeRaises(loaded) == tz_aware /\ loaded # None

\* _update_health_score, line 207: the overdue comparison is reached for a
\* manufacturing asset with a maintenance date
UpdateHealthScoreRaises(asset) ==
  /\ asset.asset_type = "manufacturing"
  /\ MixedDatetimeRaises(asset.next_maintenance_date)

\* the scorer taking the penalties off the stored score instead of 100
UpdateHealthScore_FromStored(asset, asset_id, table, t) ==
  LET week_ago == t - Week
      recent_alerts == SetToSeq(RecentAlerts(table, asset_id, week_ago))
      penalty == PenaltyLoop(table, recent_alerts)
      health_score == MaintenanceAdjusted(asset,
                                          Max(0, asset.health_score - penalty),
                                          t)
  IN  [asset EXCEPT !.health_score = Min(FullScore, health_score),
                    !.status = StatusFor(asset.status, health_score)]

\* AssetMonitor._update_health_score on the session's asset object, reading
\* the alert rows the session's query sees at time t
UpdateHealthScore(asset, asset_id, table, t) ==
  LET week_ago == t - Week
      recent_alerts == SetToSeq(RecentAlerts(table, asset_id, week_ago))
      penalty == PenaltyLoop(table, recent_alerts)
      health_score == MaintenanceAdjusted(asset, BaseScore(penalty), t)
  IN  [asset EXCEPT !.health_score = Min(FullScore, health_score),
                    !.status = StatusFor(asset.status, health_score)]

\* ---------------------------------------------------------- the database
\* flush of a session's pending alerts: ids from the sequence, created_at
\* from the server clock
Flushed(table, next, new, t) ==
  table @@ [i \in next..(next + Len(new) - 1) |->
              [new[i - next + 1] EXCEPT !.created_at = t]]

\* flush of a loaded asset: the UPDATE names only the attributes whose value
\* differs from the loaded one
AssetWritten(row, loaded, asset) ==
  [f \in DOMAIN row |-> IF asset[f] # loaded[f] THEN asset[f] ELSE row[f]]

\* what a query in a session sees: the committed rows, and the session's own
\* pending alerts only if the query flushes first
Visible(table, next, new, t) ==
  IF AUTOFLUSH THEN Flushed(table, next, new, t) ELSE table

\* ------------------------------------------------------------- ingestion
\* POST /assets/{asset_id}/metrics (create_asset_metric): the sample is
\* stored under the body's asset id and check_thresholds is queued as a
\* background task for that id; the metric_update event carries the path's
\* asset id, and its broadcast is a coroutine that is never awaited
Ingest(w, path_id, asset_id, metric_type, value) ==
  /\ pc[w] = "idle"
  /\ Len(metrics) < MaxMetrics
  /\ path_id \in DOMAIN assets
  /\ asset_id \in DOMAIN assets
  /\ metrics' = Append(metrics, [asset_id |-> asset_id,
                                 metric_type |-> metric_type,
                                 value |-> value, timestamp |-> now])
  /\ pc' = [pc EXCEPT ![w] = "begin"]
  /\ task' = [task EXCEPT ![w] = [asset_id |-> asset_id,
                                  metric_type |-> metric_type,
                                  value |-> value]]
  /\ published' = published
                   \o Broadcast(Event("metric_update", path_id, NoneStr))
  /\ UNCHANGED <<tz_aware, now, assets, alerts, nextAlertId, sess, wsVars,
                 emails, sweep>>

\* check_thresholds, lines 29-42: open the session, load the asset, look the
\* thresholds up; both early returns close the session
CT_Begin(w) ==
  /\ pc[w] = "begin"
  /\ IF task[w].asset_id \notin DOMAIN assets
        \/ task[w].metric_type \notin DOMAIN THRESHOLDS
       THEN /\ pc' = [pc EXCEPT ![w] = "idle"]
            /\ task' = [task EXCEPT ![w] = NoTask]
            /\ UNCHANGED sess
       ELSE /\ pc' = [pc EXCEPT ![w] = "check"]
            /\ sess' = [sess EXCEPT ![w] =
                          [asset |-> assets[task[w].asset_id],
                           loaded |-> assets[task[w].asset_id],
                           new |-> <<>>]]
            /\ UNCHANGED task
  /\ UNCHANGED <<tz_aware, now, dbVars, wsVars, notifyVars, sweep>>

\* check_thresholds, lines 44-52: the evaluator adds its alert to the
\* session and asks for its notifications; an exception leaves for the
\* except clause
CT_Check(w) ==
  /\ pc[w] = "check"
  /\ LET t == task[w]
         thresholds == THRESHOLDS[t.metric_type]
         out == IF t.metric_type \in NumericKinds
                  THEN [raised |-> FALSE,
                        new |-> CheckNumericThreshold(t.asset_id,
                                  t.metric_type, t.value, thresholds)]
                ELSE IF t.metric_type = "stock_price"
                  THEN CheckStockThreshold(metrics, t.asset_id, sess[w].asset,
                                           t.metric_type, t.value, thresholds)
                ELSE [raised |-> FALSE, new |-> <<>>]
         \* the alert is not flushed yet: its id is None
         sent == [i \in 1..Len(out.new) |->
                    SendAlertNotifications(out.new[i], None)]
         raised == out.raised \/ \E i \in 1..Len(sent) : sent[i].raised
     IN  /\ sess' = [sess EXCEPT ![w].new = out.new]
         /\ published' = published
                          \o (IF sent = << >> THEN << >> ELSE sent[1].published)
         /\ pc' = [pc EXCEPT ![w] = IF raised THEN "except" ELSE "update"]
  /\ UNCHANGED <<tz_aware, now, dbVars, task, wsVars, emails, sweep>>

\* check_thresholds, line 55: _update_health_score; its TypeError reaches
\* the except clause of check_thresholds
CT_Update(w) ==
  /\ pc[w] = "update"
  /\ IF UpdateHealthScoreRaises(sess[w].asset)
       THEN /\ pc' = [pc EXCEPT ![w] = "except"]
            /\ UNCHANGED sess
       ELSE /\ sess' = [sess EXCEPT ![w].asset =
                  UpdateHealthScore(sess[w].asset, task[w].asset_id,
                                    Visible(alerts, nextAlertId, sess[w].new,
                                            now),
                                    now)]
            /\ pc' = [pc EXCEPT ![w] = "commit"]
  /\ UNCHANGED <<tz_aware, now, dbVars, task, wsVars, notifyVars, sweep>>

\* check_thresholds, line 57 and finally: db.commit(), db.close()
CT_Commit(w) ==
  /\ pc[w] = "commit"
  /\ alerts' = Flushed(alerts, nextAlertId, sess[w].new, now)
  /\ nextAlertId' = nextAlertId + Len(sess[w].new)
  /\ assets' = [assets EXCEPT ![task[w].asset_id] =
                  AssetWritten(@, sess[w].loaded, sess[w].asset)]
  /\ pc' = [pc EXCEPT ![w] = "idle"]
  /\ task' = [task EXCEPT ![w] = NoTask]
  /\ sess' = [sess EXCEPT ![w] = NoSession]
  /\ UNCHANGED <<tz_aware, now, metrics, wsVars, notifyVars, sweep>>

\* check_thresholds, lines 59-63: log, db.rollback(), db.close()
CT_Except(w) ==
  /\ pc[w] = "except"
  /\ pc' = [pc EXCEPT ![w] = "idle"]
  /\ task' = [task EXCEPT ![w] = NoTask]
  /\ sess' = [sess EXCEPT ![w] = NoSession]
  /\ UNCHANGED <<tz_aware, now, dbVars, wsVars, notifyVars, sweep>>

\* the clock advances
Tick ==
  /\ now < MaxTime
  /\ now' = now + 1
  /\ UNCHANGED <<tz_aware, dbVars, workerVars, wsVars, notifyVars, sweep>>

\* ------------------------------------------------ the websocket manager
Conns == 1..MaxConns

Range(q) == {q[k] : k \in 1..Len(q)}

NoEvent     == Event(NoneStr, None, NoneStr)
\* the frame of a broadcast call: where it stands, its message, the list
\* iterator's index and the disconnected list; audience is not a variable
\* of the code: it keeps, for the record, who was connected when the call
\* began
NoBroadcast == [pc |-> "idle", message |-> NoEvent, i |-> 0,
                disconnected |-> << >>, audience |-> {}]

\* WebSocketManager.disconnect: list.remove of the first occurrence, if any
Disconnect(conns, websocket) ==
  IF websocket \notin Range(conns) THEN conns
  ELSE LET k == CHOOSE j \in 1..Len(conns) :
                  /\ conns[j] = websocket
                  /\ \A h \in 1..(j - 1) : conns[h] # websocket
       IN  SubSeq(conns, 1, k - 1) \o SubSeq(conns, k + 1, Len(conns))

\* "for connection in disconnected: self.disconnect(connection)"
RECURSIVE PruneLoop(_, _)
PruneLoop(conns, disconnected) ==
  IF disconnected = << >> THEN conns
  ELSE PruneLoop(Disconnect(conns, Head(disconnected)), Tail(disconnected))

\* broadcast, lines 37-38, once the coroutine is run: message and the empty
\* disconnected list; the list iterator stands before the first connection
BC_Start(event) ==
  /\ bc.pc = "idle"
  /\ Len(published) < MaxBroadcasts
  /\ bc' = [pc |-> "send", message |-> event, i |-> 1,
            disconnected |-> << >>,
            audience |-> Range(active_connections)]
  /\ published' = Append(published, event)
  /\ UNCHANGED <<tz_aware, hung, now, dbVars, workerVars, active_connections,
                 closed, received, emails, sweep>>

\* a send whose exception leaves the coroutine
BC_Send_Unguarded ==
  /\ bc.pc = "send"
  /\ bc.i <= Len(active_connections) => active_connections[bc.i] \notin hung
  /\ IF bc.i > Len(active_connections)
       THEN /\ bc' = [bc EXCEPT !.pc = "prune"]
            /\ UNCHANGED received
       ELSE LET connection == active_connections[bc.i]
            IN  IF connection \in closed
                  THEN /\ bc' = [bc EXCEPT !.pc = "idle"]
                       /\ UNCHANGED received
                  ELSE /\ received' = [received EXCEPT ![connection] =
                                         Append(@, bc.message)]
                       /\ bc' = [bc EXCEPT !.i = @ + 1]
  /\ UNCHANGED <<tz_aware, hung, now, dbVars, workerVars, active_connections,
                 closed, notifyVars, sweep>>

\* broadcast, lines 40-45: one turn of the loop over active_connections;
\* send_text delivers, or raises and the connection is noted; the await of
\* a send_text that never completes is never resumed, no timeout bounds it
BC_Send ==
  /\ bc.pc = "send"
  /\ bc.i <= Len(active_connections) => active_connections[bc.i] \notin hung
  /\ IF bc.i > Len(active_connections)
       THEN /\ bc' = [bc EXCEPT !.pc = "prune"]
            /\ UNCHANGED received
       ELSE LET connection == active_connections[bc.i]
            IN  IF connection \in closed
                  THEN /\ bc' = [bc EXCEPT !.i = @ + 1,
                                          !.disconnected =
                                             Append(@, connection)]
                       /\ UNCHANGED received
                  ELSE /\ received' = [received EXCEPT ![connection] =
                                         Append(@, bc.message)]
                       /\ bc' = [bc EXCEPT !.i = @ + 1]
  /\ UNCHANGED <<tz_aware, hung, now, dbVars, workerVars, active_connections,
                 closed, notifyVars, sweep>>

\* broadcast, lines 47-49 and the return: the noted connections are
\* disconnected; the frame keeps what the call worked with
BC_Prune ==
  /\ bc.pc = "prune"
  /\ active_connections' = PruneLoop(active_connections, bc.disconnected)
  /\ bc' = [bc EXCEPT !.pc = "idle"]
  /\ UNCHANGED <<tz_aware, hung, now, dbVars, workerVars, closed, received,
                 notifyVars, sweep>>

\* websocket_endpoint, line 100, with connect: the accepted websocket is
\* appended; a websocket object connects once
WS_Connect(websocket) ==
  /\ websocket \notin Range(active_connections)
  /\ websocket \notin closed
  /\ active_connections' = Append(active_connections, websocket)
  /\ UNCHANGED <<tz_aware, hung, now, dbVars, workerVars, closed, received,
                 bc, notifyVars, sweep>>

\* websocket_endpoint, lines 106-107: the peer has gone, receive_text raised
\* WebSocketDisconnect and the websocket is removed from the list
WS_Disconnect(websocket) ==
  /\ websocket \in Range(active_connections)
  /\ active_connections' = Disconnect(active_connections, websocket)
  /\ closed' = closed \cup {websocket}
  /\ UNCHANGED <<tz_aware, hung, now, dbVars, workerVars, received, bc,
                 notifyVars, sweep>>

\* ------------------------------------------------ the maintenance sweep
\* timedelta(days=7), "days_until <= 3" and "days_until <= 1"
SweepHorizon == 7
AlertWithin  == 3
HighWithin   == 1

\* the frame of a pass: the rows still to visit, alerts_created, and the
\* assets for which create_maintenance_alert logged a failure
NoSweep == [pc |-> "idle", todo |-> << >>, created |-> << >>,
            failed |-> << >>]

\* the orders in which a query without ORDER BY may return the rows S
Orders(S) == {q \in [1..Cardinality(S) -> S] : Range(q) = S}

\* check_scheduled_maintenance, lines 131-141: the active assets whose
\* next_maintenance_date is set and at most 7 days ahead, as loaded
Sweep_Begin ==
  /\ sweep.pc = "idle"
  /\ nextAlertId <= MaxSweepAlerts
  /\ LET upcoming_maintenance ==
           {a \in DOMAIN assets :
              /\ assets[a].next_maintenance_date # None
              /\ assets[a].next_maintenance_date <= now + SweepHorizon
              /\ assets[a].status = "active"}
     IN  \E q \in Orders(upcoming_maintenance) :
           sweep' = [pc |-> "loop",
                     todo |-> [k \in 1..Len(q) |->
                                 [id |-> q[k], row |-> assets[q[k]]]],
                     created |-> << >>,
                     failed |-> << >>]
  /\ UNCHANGED <<tz_aware, now, dbVars, workerVars, wsVars, notifyVars>>

\* a turn whose create_maintenance_alert lets its exception out to the
\* caller: the pass ends in the except clause of lines 157-159
SweepTurn_Propagating(commit_ok, notify_ok) ==
  /\ sweep.pc = "loop"
  /\ sweep.todo # << >>
  /\ LET asset == Head(sweep.todo)
         days_until == asset.row.next_maintenance_date - now
         severity == IF days_until <= HighWithin THEN "high" ELSE "medium"
         alert == NewAlert(asset.id, None, severity, "open", "Maintenance",
                           NoneStr, None, None)
         table == Flushed(alerts, nextAlertId, << alert >>, now)
         sent == SendAlertNotifications(table[nextAlertId], nextAlertId)
     IN  IF MixedDatetimeRaises(asset.row.next_maintenance_date)
           THEN /\ sweep' = NoSweep
                /\ UNCHANGED <<alerts, nextAlertId, published>>
         ELSE IF days_until > AlertWithin
           THEN /\ sweep' = [sweep EXCEPT !.todo = Tail(@)]
                /\ UNCHANGED <<alerts, nextAlertId, published>>
         ELSE IF ~commit_ok
           THEN /\ sweep' = NoSweep
                /\ UNCHANGED <<alerts, nextAlertId, published>>
         ELSE /\ alerts' = table
              /\ nextAlertId' = nextAlertId + 1
              /\ published' = IF notify_ok THEN published \o sent.published
                                           ELSE published
              /\ sweep' = IF sent.raised \/ ~notify_ok
                            THEN NoSweep
                            ELSE [sweep EXCEPT !.todo = Tail(@),
                                               !.created =
                                                  Append(@, nextAlertId)]
  /\ UNCHANGED <<tz_aware, now, assets, metrics, workerVars, wsVars, emails>>

\* one turn of the loop, lines 142-152.  The subtraction of line 143 raises
\* on an offset-aware date and the except clause of lines 157-159 returns
\* [].  Otherwise create_maintenance_alert (lines 96-123) commits the alert
\* in a session of its own and then sends its notifications; an exception
\* of either is logged, rolled back and answered with None, and the asset
\* row is not written.  commit_ok: db.commit() succeeds (it fails on a
\* lost connection or when the asset row was deleted meanwhile);
\* notify_ok: the reload of the expired alert inside
\* send_alert_notifications succeeds
SweepTurn(commit_ok, notify_ok) ==
  /\ sweep.pc = "loop"
  /\ sweep.todo # << >>
  /\ LET asset == Head(sweep.todo)
         days_until == asset.row.next_maintenance_date - now
         severity == IF days_until <= HighWithin THEN "high" ELSE "medium"
         alert == NewAlert(asset.id, None, severity, "open", "Maintenance",
                           NoneStr, None, None)
         table == Flushed(alerts, nextAlertId, << alert >>, now)
         sent == SendAlertNotifications(table[nextAlertId], nextAlertId)
     IN  IF MixedDatetimeRaises(asset.row.next_maintenance_date)
           THEN /\ sweep' = NoSweep
                /\ UNCHANGED <<alerts, nextAlertId, published>>
         ELSE IF days_until > AlertWithin
           THEN /\ sweep' = [sweep EXCEPT !.todo = Tail(@)]
                /\ UNCHANGED <<alerts, nextAlertId, published>>
         ELSE IF ~commit_ok
           THEN /\ sweep' = [sweep EXCEPT !.todo = Tail(@),
                                          !.failed = Append(@, asset.id)]
                /\ UNCHANGED <<alerts, nextAlertId, published>>
         ELSE /\ alerts' = table
              /\ nextAlertId' = nextAlertId + 1
              /\ published' = IF notify_ok THEN published \o sent.published
                                           ELSE published
              /\ sweep' = IF sent.raised \/ ~notify_ok
                            THEN [sweep EXCEPT !.todo = Tail(@),
                                               !.failed = Append(@, asset.id)]
                            ELSE [sweep EXCEPT !.todo = Tail(@),
                                               !.created =
                                                  Append(@, nextAlertId)]
  /\ UNCHANGED <<tz_aware, now, assets, metrics, workerVars, wsVars, emails>>

\* a turn of the loop, whatever the database does
Sweep_Step == \E commit_ok, notify_ok \in BOOLEAN :
                 SweepTurn(commit_ok, notify_ok)

\* a turn of the loop over a database that works
Sweep_Turn == SweepTurn(TRUE, TRUE)

\* lines 154-161: the pass returns alerts_created
Sweep_End ==
  /\ sweep.pc = "loop"
  /\ sweep.todo = << >>
  /\ sweep' = [sweep EXCEPT !.pc = "idle"]
  /\ UNCHANGED <<tz_aware, now, dbVars, workerVars, wsVars, notifyVars>>

\* ------------------------------------------------------- the pipeline
\* day the clock starts at: one day more than the scoring window, so that
\* rows older than the window exist
StartTime == Week + 1

\* the fleet: one manufacturing and one financial asset, as created
InitAssets == [a \in AssetIds |->
                NewAsset(IF a = 1 THEN "manufacturing" ELSE "financial")]

InitWorkers ==
  /\ pc = [w \in Workers |-> "idle"]
  /\ task = [w \in Workers |-> NoTask]
  /\ sess = [w \in Workers |-> NoSession]

\* two live observers are connected; nothing was broadcast or mailed, no
\* sweep runs
InitSubscribers ==
  /\ active_connections = <<1, 2>>
  /\ closed = {}
  /\ hung = {}
  /\ received = [c \in Conns |-> << >>]
  /\ bc = NoBroadcast

\* the deployment: DATABASE_URL (config.py:17) defaults to PostgreSQL,
\* whose driver loads a DateTime(timezone=True) column as an offset-aware
\* datetime; SQLite loads it naive.  Fixed for the life of the process.
InitDeployment == tz_aware \in BOOLEAN

InitNotify ==
  /\ published = << >>
  /\ emails = << >>
  /\ sweep = NoSweep

\* a fresh deployment: the fleet, no alerts, no metrics
Init ==
  /\ now = StartTime
  /\ assets = InitAssets
  /\ alerts = << >>
  /\ nextAlertId = 1
  /\ metrics = << >>
  /\ InitWorkers
  /\ InitSubscribers
  /\ InitNotify
  /\ InitDeployment

\* the samples the pipeline is driven with: a breach of each severity, a
\* sample in range, price moves and a kind without thresholds
Samples == { <<"temperature", 95>>, <<"temperature", 85>>,
             <<"temperature", 10>>, <<"temperature", 50>>,
             <<"stock_price", 100>>, <<"stock_price", 80>>,
             <<"risk_score", 1>> }

Next ==
  \/ \E w \in Workers, p \in AssetIds, a \in AssetIds, s \in Samples :
        Ingest(w, p, a, s[1], s[2])
  \/ \E w \in Workers : CT_Begin(w)
  \/ \E w \in Workers : CT_Check(w)
  \/ \E w \in Workers : CT_Update(w)
  \/ \E w \in Workers : CT_Commit(w)
  \/ \E w \in Workers : CT_Except(w)
  \/ Tick

Spec == Init /\ [][Next]_vars

\* -------------------------------------------- the health scorer, driven
\* an alert row as POST /alerts (create_alert) stored it at created_at
StoredAlert(asset_id, user_id, severity, status, created_at) ==
  [NewAlert(asset_id, user_id, severity, status, NoneStr, NoneStr, None, None)
     EXCEPT !.created_at = created_at]

\* creation days on both sides of the scoring window at StartTime
HealthDays == {StartTime - Week - 1, StartTime - Week, StartTime}

\* the alert tables the scorer is driven with: at most one alert of any
\* asset, severity, status and age, followed by up to MaxClones active
\* critical alerts of asset f
HealthTables(f) ==
  LET varied == {<< >>} \cup
        { << StoredAlert(a, 1, sev, st, d) >> :
            a \in AssetIds, sev \in AlertSeverity, st \in AlertStatuses,
            d \in HealthDays }
      clones(n) == [i \in 1..n |->
                     StoredAlert(f, 1, "critical", "open", StartTime)]
  IN  { v \o clones(n) : v \in varied, n \in 0..MaxClones }

\* any status and maintenance date for one asset f, any such alert table
InitHealth ==
  /\ now = StartTime
  /\ \E f \in AssetIds, st \in AssetStatus,
        m \in {None, StartTime - 1, StartTime} :
        /\ assets = [InitAssets EXCEPT ![f].status = st,
                                       ![f].next_maintenance_date = m]
        /\ \E tbl \in HealthTables(f) :
              /\ alerts = tbl
              /\ nextAlertId = Len(tbl) + 1
  /\ metrics = << >>
  /\ InitWorkers
  /\ InitSubscribers
  /\ InitNotify
  /\ InitDeployment

\* one worker, samples in range: every call reaches _update_health_score;
\* the clock stands at StartTime
NextHealth ==
  \/ \E a \in AssetIds : Ingest(1, a, a, "temperature", 50)
  \/ CT_Begin(1)
  \/ CT_Check(1)
  \/ CT_Update(1)
  \/ CT_Commit(1)
  \/ CT_Except(1)

SpecHealth == InitHealth /\ [][NextHealth]_vars

\* the kinds AssetMonitor.THRESHOLDS has no entry for
UnboundedKinds == MetricType \ DOMAIN THRESHOLDS

\* as NextHealth, with samples of every kind that breach nothing
NextAnyKind ==
  \/ NextHealth
  \/ \E a \in AssetIds, k \in UnboundedKinds : Ingest(1, a, a, k, 1)

SpecAnyKind == InitHealth /\ [][NextAnyKind]_vars

\* ------------------------------------------- the evaluator, driven
\* sample values: from below every minimum to above every critical bound
Values == (0 - 1)..MaxValue

\* a fresh deployment right after one POST /assets/{id}/metrics of any
\* kind and value: the row is stored and check_thresholds is queued
InitVerdict ==
  /\ now = StartTime
  /\ assets = InitAssets
  /\ alerts = << >>
  /\ nextAlertId = 1
  /\ \E a \in AssetIds, k \in MetricType, v \in Values :
        /\ metrics = << [asset_id |-> a, metric_type |-> k, value |-> v,
                         timestamp |-> now] >>
        /\ pc = [w \in Workers |-> IF w = 1 THEN "begin" ELSE "idle"]
        /\ task = [w \in Workers |->
                     IF w = 1 THEN [asset_id |-> a, metric_type |-> k,
                                    value |-> v]
                     ELSE NoTask]
  /\ sess = [w \in Workers |-> NoSession]
  /\ InitSubscribers
  /\ InitNotify
  /\ InitDeployment

NextVerdict ==
  \/ CT_Begin(1)
  \/ CT_Check(1)
  \/ CT_Update(1)
  \/ CT_Commit(1)
  \/ CT_Except(1)

SpecVerdict == InitVerdict /\ [][NextVerdict]_vars

\* ------------------------------------------------- the alert lifecycle
\* the users: app.auth's require_role lets both pass "analyst"; only user 1
\* passes "admin"
Role == (1 :> "admin") @@ (2 :> "analyst")

\* a request field that was not sent (dict(exclude_unset=True) drops it)
Unset    == 0 - 1
UnsetStr == "unset"

\* POST /alerts (create_alert): every AlertCreate field is stored as sent,
\* status included; the alert broadcast is a coroutine that is never awaited
CreateAlert(user, asset_id, severity, status) ==
  /\ nextAlertId <= MaxAlerts
  /\ asset_id # None => asset_id \in DOMAIN assets
  /\ alerts' = Flushed(alerts, nextAlertId,
                       << NewAlert(asset_id, user, severity, status, NoneStr,
                                   NoneStr, None, None) >>, now)
  /\ nextAlertId' = nextAlertId + 1
  /\ published' = published
                   \o Broadcast(Event("alert", nextAlertId, NoneStr))
  /\ IF severity \in {"high", "critical"}
       THEN \E outcome \in EmailOutcomes :
              emails' = Append(emails,
                               SendEmailNotification(nextAlertId, outcome))
       ELSE UNCHANGED emails
  /\ UNCHANGED <<tz_aware, now, assets, metrics, workerVars, wsVars, sweep>>

\* PUT /alerts/{alert_id} (update_alert)
UpdateAlert(user, alert_id, status, resolved_by) ==
  /\ alert_id \in DOMAIN alerts
  /\ Role[user] \in {"admin", "manager"} \/ alerts[alert_id].user_id = user
  /\ LET resolving == status \in {"resolved", "closed"}
         alert == alerts[alert_id]
         s1 == IF status # UnsetStr THEN [alert EXCEPT !.status = status]
               ELSE alert
         s2 == IF resolving
                 THEN [s1 EXCEPT !.resolved_at = now, !.resolved_by = user]
               ELSE IF resolved_by # Unset
                 THEN [s1 EXCEPT !.resolved_by = resolved_by]
               ELSE s1
     IN  /\ alerts' = [alerts EXCEPT ![alert_id] = s2]
         /\ published' = published
                          \o Broadcast(Event("alert_update", alert_id,
                                             s2.status))
  /\ UNCHANGED <<tz_aware, now, assets, nextAlertId, metrics, workerVars, wsVars,
                 emails, sweep>>

\* DELETE /alerts/{alert_id} (delete_alert)
DeleteAlert(user, alert_id) ==
  /\ Role[user] = "admin"
  /\ alert_id \in DOMAIN alerts
  /\ alerts' = [i \in DOMAIN alerts \ {alert_id} |-> alerts[i]]
  /\ UNCHANGED <<tz_aware, now, assets, nextAlertId, metrics, workerVars, wsVars,
                 notifyVars, sweep>>

\* POST /alerts/bulk/acknowledge (acknowledge_alerts)
AcknowledgeAlerts(user, alert_ids) ==
  /\ alerts' = [i \in DOMAIN alerts |->
                  IF i \in alert_ids
                    THEN [alerts[i] EXCEPT !.status = "acknowledged"]
                    ELSE alerts[i]]
  /\ LET found == SetToSeq(alert_ids \cap DOMAIN alerts)
     IN  published' = published
           \o BroadcastAll([k \in 1..Len(found) |->
                              Event("alert_update", found[k], "acknowledged")])
  /\ UNCHANGED <<tz_aware, now, assets, nextAlertId, metrics, workerVars, wsVars,
                 emails, sweep>>

\* POST /alerts/test/trigger (trigger_test_alert): an asset-less alert of
\* the given severity, status "open"; no email
TriggerTestAlert(user, severity) ==
  /\ Role[user] = "admin"
  /\ nextAlertId <= MaxAlerts
  /\ alerts' = Flushed(alerts, nextAlertId,
                       << NewAlert(None, user, severity, "open", NoneStr,
                                   NoneStr, None, None) >>, now)
  /\ nextAlertId' = nextAlertId + 1
  /\ published' = published
                   \o Broadcast(Event("alert", nextAlertId, NoneStr))
  /\ UNCHANGED <<tz_aware, now, assets, metrics, workerVars, wsVars, emails, sweep>>

\* asset-less alerts of the default severity, any documented status
NextLifecycle ==
  \/ \E u \in UserIds, st \in AlertStatuses :
        CreateAlert(u, None, "medium", st)
  \/ \E u \in UserIds, ids \in SUBSET (1..MaxAlerts) :
        AcknowledgeAlerts(u, ids)
  \/ \E u \in UserIds, i \in 1..MaxAlerts,
        st \in AlertStatuses \cup {UnsetStr}, rb \in UserIds \cup {Unset} :
        UpdateAlert(u, i, st, rb)
  \/ \E u \in UserIds, i \in 1..MaxAlerts : DeleteAlert(u, i)
  \/ Tick

SpecLifecycle == Init /\ [][NextLifecycle]_vars

\* --------------------------------------------------- the asset endpoints
\* POST /assets (create_asset): Asset(**asset_data.dict()) stores every
\* AssetCreate field as sent, status and health_score included; the schema
\* admits any AssetStatus and a health_score within [0, 100]
CreateAsset(asset_type, status, health_score) ==
  /\ Cardinality(DOMAIN assets) < MaxAssets
  /\ health_score \in 0..FullScore
  /\ assets' = assets @@ ((Cardinality(DOMAIN assets) + 1) :>
                  [NewAsset(asset_type) EXCEPT !.status = status,
                                               !.health_score = health_score])
  /\ UNCHANGED <<tz_aware, now, alerts, nextAlertId, metrics, workerVars,
                 wsVars, notifyVars, sweep>>

\* PUT /assets/{asset_id} (update_asset): setattr for every field the
\* request sent; AssetUpdate admits status and a health_score of any size
UpdateAsset(asset_id, status, health_score) ==
  /\ asset_id \in DOMAIN assets
  /\ assets' = [assets EXCEPT ![asset_id] =
                  [@ EXCEPT !.status = IF status = UnsetStr THEN @
                                       ELSE status,
                            !.health_score = IF health_score = Unset THEN @
                                             ELSE health_score]]
  /\ UNCHANGED <<tz_aware, now, alerts, nextAlertId, metrics, workerVars,
                 wsVars, notifyVars, sweep>>

\* asset requests by a manager next to in-range samples for the fleet
NextAssets ==
  \/ \E st \in {"active", "failed"}, h \in {0, FullScore} :
        CreateAsset("manufacturing", st, h)
  \/ \E a \in 1..MaxAssets, st \in {UnsetStr, "failed"}, h \in {Unset, 150} :
        UpdateAsset(a, st, h)
  \/ \E a \in AssetIds : Ingest(1, a, a, "temperature", 50)
  \/ CT_Begin(1)
  \/ CT_Check(1)
  \/ CT_Update(1)
  \/ CT_Commit(1)

SpecAssets == Init /\ [][NextAssets]_vars

\* ------------------------------------------------- the broadcast, driven
\* the lists active_connections can hold: connect appends each accepted
\* websocket once
ConnLists ==
  UNION { {q \in [1..n -> Conns] :
             \A j, k \in 1..n : q[j] = q[k] => j = k} : n \in 0..MaxConns }

\* one event of each kind
Events == { Event("metric_update", 1, NoneStr), Event("alert", 1, NoneStr),
            Event("alert_update", 1, "acknowledged"),
            Event("batch_update", 1, NoneStr) }

\* any list of connections, any of them broken
InitBroadcast ==
  /\ now = StartTime
  /\ assets = InitAssets
  /\ alerts = << >>
  /\ nextAlertId = 1
  /\ metrics = << >>
  /\ InitWorkers
  /\ InitNotify
  /\ InitDeployment
  /\ \E q \in ConnLists, broken \in SUBSET Conns :
        /\ active_connections = q
        /\ closed = broken
  /\ hung = {}
  /\ received = [c \in Conns |-> << >>]
  /\ bc = NoBroadcast

NextBroadcast ==
  \/ \E e \in Events : BC_Start(e)
  \/ BC_Send
  \/ BC_Prune

SpecBroadcast == InitBroadcast /\ [][NextBroadcast]_vars

\* broadcasts of distinct events while clients come and go: connect and
\* disconnect run between the awaits of the coroutine
NextConcurrent ==
  \/ \E e \in Events \ Range(published) : BC_Start(e)
  \/ BC_Send
  \/ BC_Prune
  \/ \E c \in Conns : WS_Connect(c)
  \/ \E c \in Conns : WS_Disconnect(c)

SpecConcurrent == InitBroadcast /\ [][NextConcurrent]_vars

\* any list of connections, any of them broken, any of the others hung
InitHang ==
  /\ now = StartTime
  /\ assets = InitAssets
  /\ alerts = << >>
  /\ nextAlertId = 1
  /\ metrics = << >>
  /\ InitWorkers
  /\ InitNotify
  /\ InitDeployment
  /\ \E q \in ConnLists, broken \in SUBSET Conns :
        /\ active_connections = q
        /\ closed = broken
        /\ hung \in SUBSET (Conns \ broken)
  /\ received = [c \in Conns |-> << >>]
  /\ bc = NoBroadcast

\* the event loop resumes a coroutine whose awaited send has completed or
\* failed, and runs it on to its next await
SpecHang ==
  InitHang /\ [][NextBroadcast]_vars /\ WF_vars(BC_Send) /\ WF_vars(BC_Prune)

\* ------------------------------------- alert creation and notification
\* maintenance dates around the sweep's 1-, 3- and 7-day marks at StartTime
MaintDays == {None, StartTime - 1, StartTime + 1, StartTime + 2,
              StartTime + 4, StartTime + 8}

\* the fleet with a maintenance date on each asset, two live observers
InitAlerting ==
  /\ now = StartTime
  /\ \E m1 \in MaintDays, m2 \in {None, StartTime + 2} :
        assets = [InitAssets EXCEPT ![1].next_maintenance_date = m1,
                                    ![2].next_maintenance_date = m2]
  /\ alerts = << >>
  /\ nextAlertId = 1
  /\ metrics = << >>
  /\ InitWorkers
  /\ InitSubscribers
  /\ InitNotify
  /\ InitDeployment

\* every path that stores an alert or changes its status, and the sweep;
\* the clock stands at StartTime
NextAlerting ==
  \/ \E u \in UserIds, sev \in {"medium", "high"},
        st \in {"open", "resolved"} : CreateAlert(u, 1, sev, st)
  \/ \E sev \in {"medium", "critical"} : TriggerTestAlert(1, sev)
  \/ \E ids \in SUBSET (1..MaxAlerts) : AcknowledgeAlerts(2, ids)
  \/ \E u \in UserIds, i \in 1..MaxAlerts : UpdateAlert(u, i, "resolved", Unset)
  \/ Sweep_Begin
  \/ Sweep_Step
  \/ Sweep_End

SpecAlerting == InitAlerting /\ [][NextAlerting]_vars

\* --------------------------------------- two samples, one after another
\* breaches of each severity, a sample in range, a price and its moves by
\* 5, 6, 10 and 11 percent either way, a price of 0, a kind without
\* thresholds
SeriesSamples == { <<"temperature", 95>>, <<"temperature", 85>>,
                   <<"temperature", 10>>, <<"temperature", 50>>,
                   <<"stock_price", 100>>, <<"stock_price", 95>>,
                   <<"stock_price", 94>>, <<"stock_price", 90>>,
                   <<"stock_price", 89>>, <<"stock_price", 106>>,
                   <<"stock_price", 110>>, <<"stock_price", 111>>,
                   <<"stock_price", 0>>, <<"risk_score", 1>> }

\* one request at a time: each check_thresholds ends before the next sample
NextSeries ==
  \/ \E a \in AssetIds, s \in SeriesSamples : Ingest(1, a, a, s[1], s[2])
  \/ CT_Begin(1)
  \/ CT_Check(1)
  \/ CT_Update(1)
  \/ CT_Commit(1)
  \/ CT_Except(1)

SpecSeries == Init /\ [][NextSeries]_vars

\* ------------------------------------------------- the sweep, driven
\* maintenance dates on both sides of the sweep's 1-, 3- and 7-day marks
SweepDays == {None, StartTime - 1, StartTime, StartTime + 1, StartTime + 2,
              StartTime + 3, StartTime + 4, StartTime + 7, StartTime + 8}

\* the fleet with any such date and an active or inactive status on each
\* asset; no alerts yet
InitSweep ==
  /\ now = StartTime
  /\ \E m1, m2 \in SweepDays, s1, s2 \in {"active", "inactive"} :
        assets = [InitAssets EXCEPT ![1].next_maintenance_date = m1,
                                    ![1].status = s1,
                                    ![2].next_maintenance_date = m2,
                                    ![2].status = s2]
  /\ alerts = << >>
  /\ nextAlertId = 1
  /\ metrics = << >>
  /\ InitWorkers
  /\ InitSubscribers
  /\ InitNotify
  /\ InitDeployment

\* sweep passes over a database that works; the clock stands at StartTime
NextSweepSound ==
  \/ Sweep_Begin
  \/ Sweep_Turn
  \/ Sweep_End

SpecSweepSound == InitSweep /\ [][NextSweepSound]_vars

\* sweep passes whose commits and notifications may fail
NextSweep ==
  \/ Sweep_Begin
  \/ Sweep_Step
  \/ Sweep_End

SpecSweep == InitSweep /\ [][NextSweep]_vars

\* ================================================================ claims
AllIdle == \A w \in Workers : pc[w] = "idle"

AlertsOf(a) == {i \in DOMAIN alerts : alerts[i].asset_id = a}

\* the asset's alerts that are open or acknowledged and at most a week old
ActiveRecent(a, t) ==
  {i \in AlertsOf(a) : /\ alerts[i].status \in {"open", "acknowledged"}
                       /\ t - alerts[i].created_at <= 7}

Count(S, sev) == Cardinality({i \in S : alerts[i].severity = sev})

\* clamp(100 - P, 0, 100), and 30 less (not below 0) for a manufacturing
\* asset whose maintenance date is strictly before t
ExpectedScore(a, t) ==
  LET S == ActiveRecent(a, t)
      P == 20 * Count(S, "critical") + 10 * Count(S, "high")
           + 5 * Count(S, "medium") + 2 * Count(S, "low")
      base == IF 100 - P < 0 THEN 0 ELSE IF 100 - P > 100 THEN 100 ELSE 100 - P
      overdue == /\ assets[a].asset_type = "manufacturing"
                 /\ assets[a].next_maintenance_date # None
                 /\ assets[a].next_maintenance_date < t
  IN  IF overdue THEN (IF base - 30 < 0 THEN 0 ELSE base - 30) ELSE base

\* the sample is outside the [min, max] band of its bounded-numeric kind
Breaches(kind, value) ==
  /\ kind \in NumericKinds
  /\ value > THRESHOLDS[kind].max \/ value < THRESHOLDS[kind].min

\* C1: for every bounded-numeric kind and every value, one ingestion yields
\* at most one alert, of severity critical if value > critical, otherwise
\* high if value > max, otherwise medium if value < min, otherwise none
C1_OneVerdictInSeverityOrder ==
  /\ Cardinality(DOMAIN alerts) <= 1
  /\ \A w \in Workers :
       (pc[w] \in {"update", "commit", "except"}
        /\ task[w].metric_type \in NumericKinds) =>
         LET th == THRESHOLDS[task[w].metric_type]
             v == task[w].value
             new == sess[w].new
             expected == IF v > th.critical THEN "critical"
                         ELSE IF v > th.max THEN "high"
                         ELSE IF v < th.min THEN "medium"
                         ELSE NoneStr
         IN  /\ Len(new) <= 1
             /\ (expected = NoneStr) <=> (Len(new) = 0)
             /\ Len(new) = 1 => new[1].severity = expected

\* a value above both max and critical has yielded a critical alert
C1_Witness ==
  \E w \in Workers :
    /\ pc[w] = "except"
    /\ task[w].metric_type \in NumericKinds
    /\ task[w].value > THRESHOLDS[task[w].metric_type].critical
    /\ task[w].value > THRESHOLDS[task[w].metric_type].max
    /\ Len(sess[w].new) = 1
    /\ sess[w].new[1].severity = "critical"

\* C2: an asset with no prior alerts that ingests temperature 95 ends with
\* exactly one critical alert persisted and health score 80: the score
\* persisted by the ingestion includes the penalty of the alert it created
C2_BreachPersistedAndScored ==
  \A a \in AssetIds :
    (/\ AllIdle
     /\ Len(metrics) = 1
     /\ metrics[1].asset_id = a
     /\ metrics[1].metric_type = "temperature"
     /\ metrics[1].value = 95) =>
      /\ Cardinality(AlertsOf(a)) = 1
      /\ \A i \in AlertsOf(a) : alerts[i].severity = "critical"
      /\ assets[a].health_score = 80

\* C3: after any sequence of health-score recomputations the score, as
\* computed and as stored, is between 0 and 100
C3_HealthScoreInRange ==
  /\ \A a \in AssetIds :
       assets[a].health_score >= 0 /\ assets[a].health_score <= 100
  /\ \A w \in Workers :
       pc[w] = "commit" =>
         sess[w].asset.health_score >= 0 /\ sess[w].asset.health_score <= 100

\* a recompute over more than 100 penalty points has stored the score 0
C3_Witness ==
  \E a \in AssetIds :
    /\ AllIdle
    /\ \E k \in 1..Len(metrics) : metrics[k].asset_id = a
    /\ Count(ActiveRecent(a, now), "critical") >= 6
    /\ assets[a].asset_type = "financial"
    /\ assets[a].health_score = 0

\* C4: the recomputed score is clamp(100 - P, 0, 100), P summing 20, 10, 5,
\* 2 per critical, high, medium, low alert of the asset that is open or
\* acknowledged and at most 7 days old, less 30 (not below 0) for a
\* manufacturing asset whose next_maintenance_date is strictly before now
C4_ScoreIsClampedPenaltySum ==
  \A w \in Workers :
    pc[w] = "commit" =>
      sess[w].asset.health_score = ExpectedScore(task[w].asset_id, now)

\* an overdue manufacturing asset with an active, a resolved and another
\* asset's alert has been scored between 0 and 70
C4_Witness ==
  \E w \in Workers :
    /\ pc[w] = "commit"
    /\ assets[task[w].asset_id].asset_type = "manufacturing"
    /\ assets[task[w].asset_id].next_maintenance_date # None
    /\ assets[task[w].asset_id].next_maintenance_date < now
    /\ ActiveRecent(task[w].asset_id, now) # {}
    /\ \E i \in DOMAIN alerts :
         \/ alerts[i].asset_id # task[w].asset_id
         \/ alerts[i].status \in {"resolved", "closed"}
         \/ now - alerts[i].created_at > 7
    /\ sess[w].asset.health_score > 0
    /\ sess[w].asset.health_score < 70

\* C5: after a recompute the status is failed if score < 30, maintenance if
\* 30 <= score < 70, and for score >= 70 active when it was failed and
\* otherwise the previous status
C5_StatusFollowsScore ==
  \A w \in Workers :
    pc[w] = "commit" =>
      LET score == sess[w].asset.health_score
          previous == sess[w].loaded.status
      IN  sess[w].asset.status =
            IF score < 30 THEN "failed"
            ELSE IF score < 70 THEN "maintenance"
            ELSE IF previous = "failed" THEN "active"
            ELSE previous

\* a healthy score has left an inactive asset inactive
C5_Witness ==
  \E w \in Workers :
    /\ pc[w] = "commit"
    /\ sess[w].loaded.status = "inactive"
    /\ sess[w].asset.health_score >= 70
    /\ sess[w].asset.status = "inactive"

\* C6: once two ingestions of breaching samples for the same asset have
\* both completed, both alerts are persisted and the stored health score
\* is the recompute over all of the asset's active alerts
C6_ConcurrentIngestionsLoseNothing ==
  \A a \in AssetIds :
    (/\ AllIdle
     /\ Len(metrics) = 2
     /\ \A k \in 1..2 : /\ metrics[k].asset_id = a
                         /\ Breaches(metrics[k].metric_type, metrics[k].value)) =>
      /\ Cardinality(AlertsOf(a)) = 2
      /\ assets[a].health_score = ExpectedScore(a, now)

\* C7: bulk acknowledge sets exactly the listed alerts that are open to
\* acknowledged and leaves every other alert as it was
C7_AcknowledgeOnlyOpen ==
  [][ \A u \in UserIds, ids \in SUBSET (1..MaxAlerts) :
        AcknowledgeAlerts(u, ids) =>
          \A i \in DOMAIN alerts :
            alerts'[i] = IF i \in ids /\ alerts[i].status = "open"
                           THEN [alerts[i] EXCEPT !.status = "acknowledged"]
                           ELSE alerts[i] ]_vars

\* C8: the only status changes are open to acknowledged and open or
\* acknowledged to resolved or closed; a resolved or closed alert keeps its
\* status
C8_StatusTransitions ==
  [][ \A i \in DOMAIN alerts \cap DOMAIN alerts' :
        alerts'[i].status # alerts[i].status =>
          \/ alerts[i].status = "open" /\ alerts'[i].status = "acknowledged"
          \/ /\ alerts[i].status \in {"open", "acknowledged"}
             /\ alerts'[i].status \in {"resolved", "closed"} ]_vars

\* C9: resolved_at and resolved_by of every alert are non-null exactly
\* when its status is resolved or closed
C9_ResolutionIffResolved ==
  \A i \in DOMAIN alerts :
    (alerts[i].resolved_at # None /\ alerts[i].resolved_by # None)
      <=> alerts[i].status \in {"resolved", "closed"}

\* C10: resolving an alert that a resolution has already resolved leaves
\* its resolved_at and resolved_by as the first resolution set them
C10_ReResolveIsNoOp ==
  [][ \A u \in UserIds, i \in DOMAIN alerts :
        (/\ alerts[i].status = "resolved"
         /\ alerts[i].resolved_at # None
         /\ UpdateAlert(u, i, "resolved", Unset)) =>
          /\ alerts'[i].resolved_at = alerts[i].resolved_at
          /\ alerts'[i].resolved_by = alerts[i].resolved_by ]_vars

\* the alerts a step stores, and those whose status it changes
Created == DOMAIN alerts' \ DOMAIN alerts
StatusChanged == {i \in DOMAIN alerts \cap DOMAIN alerts' :
                    alerts'[i].status # alerts[i].status}

\* C11: every alert, whichever path stores it (alert endpoint, threshold
\* breach, maintenance sweep, test trigger), has status open right after
\* its creation
C11_CreatedOpen ==
  [][ \A i \in Created : alerts'[i].status = "open" ]_vars

\* C12: a broadcast over subscribers some of whose sends fail delivers the
\* event to every subscriber whose send succeeds, removes exactly the
\* failing subscribers from the subscriber list, and returns without
\* raising: the loop is left only for the pruning, never by an exception
C12_BroadcastSurvivesFailedSends ==
  [][ /\ (bc.pc = "send" /\ bc'.pc # "send") => bc'.pc = "prune"
      /\ (bc.pc = "prune" /\ bc'.pc # "prune") =>
           /\ bc'.pc = "idle"
           /\ \A c \in Range(active_connections) \ closed :
                received'[c] = published'
           /\ \A c \in closed : received'[c] = << >>
           /\ active_connections' =
                SelectSeq(active_connections, LAMBDA c : c \notin closed) ]_vars

\* three subscribers, the send to one of them failed, the other two hold
\* the event, and the broadcast is about to prune
C12_Witness ==
  /\ bc.pc = "prune"
  /\ Len(active_connections) = 3
  /\ Len(bc.disconnected) = 1
  /\ \A c \in Range(active_connections) \ Range(bc.disconnected) :
       /\ received[c] # << >>
       /\ received[c][Len(received[c])] = bc.message

\* C13: every alert creation and every status-changing transition emits
\* exactly one event, alert for a creation and alert_update for a
\* transition, which reaches every connected subscriber in the same step
C13_OneEventPerChange ==
  [][ LET n == Cardinality(Created) + Cardinality(StatusChanged)
          emitted == SubSeq(published', Len(published) + 1, Len(published'))
      IN  (bc.pc = "idle" /\ bc'.pc = "idle") =>
            /\ Len(emitted) = n
            /\ \A i \in Created :
                 \E k \in 1..n : emitted[k].type = "alert" /\ emitted[k].id = i
            /\ \A i \in StatusChanged :
                 \E k \in 1..n : /\ emitted[k].type = "alert_update"
                                  /\ emitted[k].id = i
            /\ \A c \in Range(active_connections) \ closed :
                 received'[c] = received[c] \o emitted ]_vars

\* C17: when a maintenance sweep pass returns, every asset it created an
\* alert for holds the recomputed health score, the penalty of the new
\* maintenance alert included
C17_SweepRecomputesHealth ==
  [][ (sweep.pc = "loop" /\ sweep'.pc = "idle") =>
        \A k \in 1..Len(sweep.created) :
          sweep.created[k] \in DOMAIN alerts' =>
            LET a == alerts'[sweep.created[k]].asset_id
            IN  assets'[a].health_score = ExpectedScore(a, now) ]_vars

\* C18: every alert of severity high or critical stored by the alert
\* endpoint or by the maintenance sweep is handed to the email notifier in
\* the same step, and an email failure leaves the alert stored
C18_HighSeverityIsMailed ==
  [][ (\/ Sweep_Step
       \/ \E u \in UserIds, a \in AssetIds \cup {None},
             sev \in AlertSeverity, st \in AlertStatuses :
             CreateAlert(u, a, sev, st)) =>
        LET mailed == SubSeq(emails', Len(emails) + 1, Len(emails'))
        IN  /\ \A i \in Created :
                 alerts'[i].severity \in {"high", "critical"} =>
                   \E k \in 1..Len(mailed) : mailed[k].alert = i
            /\ \A k \in 1..Len(mailed) : mailed[k].alert \in Created ]_vars

\* C14: a failure while producing or delivering the notification of a
\* threshold-breach alert neither rolls the state change back nor aborts
\* the ingestion: when check_thresholds returns, the alert is persisted and
\* the asset holds the recomputed health score and status
C14_NotificationFailureKeepsAlert ==
  [][ \A w \in Workers :
        (pc[w] # "idle" /\ pc'[w] = "idle" /\ sess[w].new # << >>) =>
          LET a == task[w].asset_id
          IN  /\ \E i \in Created :
                   /\ alerts'[i].asset_id = a
                   /\ alerts'[i].severity = sess[w].new[1].severity
              /\ assets'[a].health_score < FullScore
              /\ assets'[a].status =
                   StatusFor(assets[a].status, assets'[a].health_score) ]_vars

\* C15: no alert event is published for an alert that is not persisted:
\* while a breach is being rolled back, and whenever no ingestion is under
\* way, every published alert event names a stored alert
C15_NoEventWithoutAlert ==
  (AllIdle \/ \E w \in Workers : pc[w] = "except") =>
    \A k \in 1..Len(published) :
      published[k].type = "alert" => published[k].id \in DOMAIN alerts

\* a price move has been judged a breach and its ingestion is rolling back
C15_Witness ==
  \E w \in Workers :
    /\ pc[w] = "except"
    /\ task[w].metric_type = "stock_price"
    /\ Len(sess[w].new) = 1
    /\ \A i \in DOMAIN alerts : alerts[i].asset_id # task[w].asset_id

\* the price sample 90 of an asset follows its price sample 100
PriceDropsTenPercent(w) ==
  /\ pc[w] \in {"update", "commit", "except"}
  /\ task[w].metric_type = "stock_price"
  /\ task[w].value = 90
  /\ Len(metrics) = 2
  /\ \A k \in 1..2 : /\ metrics[k].asset_id = task[w].asset_id
                      /\ metrics[k].metric_type = "stock_price"
  /\ metrics[1].value = 100
  /\ metrics[2].value = 90

\* C19: for previous price 100 and new price 90 (change 10%, critical_change
\* 10) the verdict is critical and says the price decreased by 10.00%
C19_TenPercentDropIsCritical ==
  \A w \in Workers :
    PriceDropsTenPercent(w) =>
      /\ Len(sess[w].new) = 1
      /\ sess[w].new[1].severity = "critical"
      /\ sess[w].new[1].description = "decreased by 10.00%"

\* C19, amended: for previous price 100 and new price 90 the verdict is
\* high, a change of exactly critical_change not exceeding it, and says the
\* price decreased by 10.00%
C19_TenPercentDropIsHigh ==
  \A w \in Workers :
    PriceDropsTenPercent(w) =>
      /\ Len(sess[w].new) = 1
      /\ sess[w].new[1].severity = "high"
      /\ sess[w].new[1].description = "decreased by 10.00%"

\* the sample 90 after 100 has been evaluated
C19_Witness ==
  \E w \in Workers : PriceDropsTenPercent(w) /\ sess[w].new # << >>

\* C16: every ingestion for an existing asset recomputes and persists the
\* asset's health score and status, whatever the metric kind, also for a
\* kind without thresholds and for a sample that breaches nothing
C16_EveryIngestionRecomputes ==
  [][ \A w \in Workers :
        (pc[w] # "idle" /\ pc'[w] = "idle"
         /\ task[w].asset_id \in DOMAIN assets) =>
          LET a == task[w].asset_id
              score == ExpectedScore(a, now)
          IN  /\ assets'[a].health_score = score
              /\ assets'[a].status =
                   IF score < 30 THEN "failed"
                   ELSE IF score < 70 THEN "maintenance"
                   ELSE IF assets[a].status = "failed" THEN "active"
                   ELSE assets[a].status ]_vars

\* a manufacturing asset whose maintenance was due one day ago, without
\* alerts and with stored health score 70, has been rescored
OverdueWithScore70(w) ==
  /\ pc[w] = "commit"
  /\ sess[w].loaded.asset_type = "manufacturing"
  /\ sess[w].loaded.next_maintenance_date = now - 1
  /\ sess[w].loaded.health_score = 70
  /\ AlertsOf(task[w].asset_id) = {}

C21_IngestionPublishesMetricUpdate ==
  [][ Len(metrics') > Len(metrics) =>
        /\ Len(published') = Len(published) + 1
        /\ published'[Len(published')].type = "metric_update"
        /\ \A c \in Range(active_connections) \ closed :
             received'[c] = Append(received[c], published'[Len(published')])
    ]_vars

\* C22: only the health-score recompute writes an asset's health_score or
\* status: a stored asset's two fields change only when a check_thresholds
\* call commits its recompute for that asset, a new asset starts at the
\* defaults (100, active), and the score is within [0, 100] throughout
C22_OnlyRecomputeWritesHealth ==
  [][ \A a \in DOMAIN assets' :
        /\ assets'[a].health_score \in 0..FullScore
        /\ IF a \in DOMAIN assets
             THEN (\/ assets'[a].health_score # assets[a].health_score
                   \/ assets'[a].status # assets[a].status)
                  => \E w \in Workers : /\ pc[w] = "commit"
                                        /\ pc'[w] = "idle"
                                        /\ task[w].asset_id = a
             ELSE /\ assets'[a].health_score = FullScore
                  /\ assets'[a].status = "active"
    ]_vars

\* C23: a broadcast always terminates: a running broadcast returns, a
\* subscriber whose send never completes notwithstanding
C23_BroadcastTerminates == (bc.pc # "idle") ~> (bc.pc = "idle")

\* the assets a sweep pass at time t has to look at, and the days left
Upcoming(t) ==
  {a \in DOMAIN assets : /\ assets[a].status = "active"
                         /\ assets[a].next_maintenance_date # None
                         /\ assets[a].next_maintenance_date <= t + 7}
DaysUntil(a, t) == assets[a].next_maintenance_date - t

\* C24: a sweep pass takes up exactly the active assets whose
\* next_maintenance_date is set and at most 7 days ahead, each once; its
\* turn for an asset creates one open maintenance alert for it when
\* daysUntil <= 3 (high if daysUntil <= 1, otherwise medium) and none when
\* daysUntil is in (3, 7], and goes on to the next asset; no other step
\* creates an alert
C24_SweepAlertsByDaysUntil ==
  [][ /\ (sweep.pc = "idle" /\ sweep'.pc = "loop") =>
           /\ {sweep'.todo[k].id : k \in 1..Len(sweep'.todo)} = Upcoming(now)
           /\ Len(sweep'.todo) = Cardinality(Upcoming(now))
      /\ IF sweep.pc = "loop" /\ sweep.todo # << >>
           THEN LET a == Head(sweep.todo).id
                    d == DaysUntil(a, now)
                IN  /\ sweep'.pc = "loop"
                    /\ sweep'.todo = Tail(sweep.todo)
                    /\ d > 3 => Created = {}
                    /\ d <= 3 =>
                         /\ Cardinality(Created) = 1
                         /\ \A i \in Created :
                              /\ alerts'[i].asset_id = a
                              /\ alerts'[i].description = "Maintenance"
                              /\ alerts'[i].status = "open"
                              /\ alerts'[i].severity =
                                   IF d <= 1 THEN "high" ELSE "medium"
           ELSE Created = {}
    ]_vars

\* a turn of the sweep's loop that reaches create_maintenance_alert
CallsCreate ==
  /\ sweep.pc = "loop"
  /\ sweep.todo # << >>
  /\ ~MixedDatetimeRaises(Head(sweep.todo).row.next_maintenance_date)
  /\ DaysUntil(Head(sweep.todo).id, now) <= 3

\* C25: within one sweep pass a failure to create the alert for one asset
\* does not stop the pass: the turn that called create_maintenance_alert
\* goes on to the remaining assets with alerts_created intact, and when the
\* pass returns, every qualifying asset whose creation did not fail has its
\* alert in the returned list
C25_FailedCreateDoesNotStopPass ==
  [][ /\ CallsCreate =>
           /\ sweep'.pc = "loop"
           /\ sweep'.todo = Tail(sweep.todo)
           /\ Len(sweep'.failed) > Len(sweep.failed) =>
                sweep'.created = sweep.created
      /\ (sweep.pc = "loop" /\ sweep.todo = << >> /\ sweep'.pc = "idle") =>
           /\ sweep'.created = sweep.created
           /\ \A a \in Upcoming(now) :
                (DaysUntil(a, now) <= 3 /\ a \notin Range(sweep.failed)) =>
                  \E k \in 1..Len(sweep.created) :
                    alerts[sweep.created[k]].asset_id = a
    ]_vars

\* a pass has returned after the creation failed for one asset, which has
\* no alert, and succeeded for another
C25_Witness ==
  /\ sweep.pc = "idle"
  /\ \E a \in Range(sweep.failed) : AlertsOf(a) = {}
  /\ \E k \in 1..Len(sweep.created) :
       alerts[sweep.created[k]].asset_id \notin Range(sweep.failed)

\* C27: a failed notification never masks a stored maintenance alert: the
\* alerts a turn of the sweep appends to the list it will return are
\* exactly the alerts that turn committed
C27_ReturnedListIsWhatWasStored ==
  [][ (sweep.pc = "loop" /\ sweep'.pc = "loop") =>
        Range(sweep'.created) \ Range(sweep.created) = Created ]_vars

\* C26: the recompute is idempotent: a recompute for an asset whose stored
\* score and status a previous recompute wrote, over the same alert rows and
\* at the same time, arrives at the stored score and status again
C26_RecomputeIsIdempotent ==
  \A w \in Workers :
    (/\ pc[w] = "commit"
     /\ \E k \in 1..(Len(metrics) - 1) :
          metrics[k].asset_id = task[w].asset_id) =>
      /\ sess[w].asset.health_score = sess[w].loaded.health_score
      /\ sess[w].asset.status = sess[w].loaded.status

\* a second recompute stands at its commit for an asset the first one moved
\* to another score and status than it was given
C26_Witness ==
  \E w \in Workers, f \in AssetIds :
    /\ pc[w] = "commit"
    /\ Len(metrics) = 2
    /\ metrics[1].asset_id = f
    /\ task[w].asset_id = f
    /\ sess[w].loaded.health_score < FullScore
    /\ sess[w].loaded.status # "active"
    /\ sess[w].loaded.next_maintenance_date # None

\* the boundary of THRESHOLDS[kind] a verdict of the given severity crossed
BreachedBound(kind, severity) ==
  IF severity = "critical" THEN THRESHOLDS[kind].critical
  ELSE IF severity = "high" THEN THRESHOLDS[kind].max
  ELSE THRESHOLDS[kind].min

\* C29: the alert built from a bounded-numeric breach records the ingested
\* value as actual_value and the breached boundary as threshold_value: the
\* critical bound for a critical alert, max for a high one, min for a
\* medium one
C29_AlertRecordsBreachedBound ==
  \A w \in Workers : \A k \in 1..Len(sess[w].new) :
    LET alert == sess[w].new[k]
    IN  alert.metric_type \in NumericKinds =>
          /\ alert.actual_value = task[w].value
          /\ alert.threshold_value =
               BreachedBound(alert.metric_type, alert.severity)

\* C30: one ingestion call concerns the asset its path names, the one whose
\* existence is checked and whose id the metric_update payload carries: the
\* sample is stored under that asset, the threshold and health evaluation
\* is queued for it, and no asset row changes in the call
C30_IngestionConcernsNamedAsset ==
  [][ \A w \in Workers, p \in AssetIds, a \in AssetIds, s \in Samples :
        Ingest(w, p, a, s[1], s[2]) =>
          /\ metrics'[Len(metrics')].asset_id = p
          /\ task'[w].asset_id = p
          /\ assets' = assets
    ]_vars

\* how often connection c was sent the event e
TimesReceived(c, e) ==
  Cardinality({k \in 1..Len(received[c]) : received[c][k] = e})

\* C28: when a broadcast returns, every subscriber that was connected when
\* it began, is still connected and whose send succeeds has been sent the
\* event exactly once, whoever connected or disconnected meanwhile
C28_ExactlyOnceUnderChurn ==
  [][ (bc.pc = "prune" /\ bc'.pc = "idle") =>
        \A c \in bc.audience :
          (c \in Range(active_connections') /\ c \notin closed) =>
            TimesReceived(c, bc.message) = 1 ]_vars

====
